---- MODULE Spec2Model ----
(***************************************************************************)
(* Verification model of the LMAY tooling (francois5/lmay).                *)
(*                                                                         *)
(*   - ReferenceValidator  (tools/validator/src/reference-validator.js)    *)
(*   - LMAYValidator hierarchy pass (tools/validator/src/validator.js)     *)
(*   - MaintenanceEngine.analyzeObsolescence (tools/maintenance/README.md) *)
(*                                                                         *)
(* A project is a directory <<"p">> holding four .lmay documents; three in *)
(* the project directory and one in the sub-directory "sub".  Paths are    *)
(* sequences of components; relative links are sequences that may start    *)
(* with "..".                                                              *)
(***************************************************************************)
EXTENDS Integers, Sequences, FiniteSets, TLC

None == "none"

(***************************************************************************)
(* Bounds of the model.                                                    *)
(***************************************************************************)
MaxLinks == 4        \* lmay_file links declared in the whole project
MaxStack == 5        \* pending validateFileReferences calls kept (window)
MaxFindings == 10    \* findings kept in one list

(***************************************************************************)
(* Paths (node's path module, POSIX flavour, on component sequences).      *)
(***************************************************************************)
ProjectPath == <<"p">>

RECURSIVE Normalize(_, _)
Normalize(acc, rest) ==
  IF rest = <<>> THEN acc
  ELSE IF Head(rest) = ".."
       THEN Normalize(IF acc = <<>> THEN acc ELSE SubSeq(acc, 1, Len(acc) - 1),
                      Tail(rest))
       ELSE Normalize(Append(acc, Head(rest)), Tail(rest))

\* path.resolve(base, rel) for an absolute base and a relative rel
PathResolve(base, rel) == Normalize(<<>>, base \o rel)

\* path.join(a, b)
PathJoin(a, b) == Normalize(<<>>, a \o b)

\* path.dirname(p)
PathDirname(p) == IF p = <<>> THEN p ELSE SubSeq(p, 1, Len(p) - 1)

\* str.endsWith('.lmay') on the last component of a path or link
LmayNames == {"root.lmay", "main.lmay", "a.lmay", "b.lmay", "c.lmay"}
EndsWithLmay(p) == p # <<>> /\ p[Len(p)] \in LmayNames

(***************************************************************************)
(* The project on disk.                                                    *)
(***************************************************************************)
RootFiles == {"root.lmay", "main.lmay"}

DocA == <<"p", "a.lmay">>
DocB == <<"p", "b.lmay">>
DocC == <<"p", "sub", "c.lmay">>
RootDoc(rf) == PathJoin(ProjectPath, <<rf>>)

DocPaths(rf) == {RootDoc(rf), DocA, DocB, DocC}

\* the lmay_file strings a document may declare, in the order of the keys
LinkOrder(rf) ==
  << <<"a.lmay">>, <<"b.lmay">>, <<"sub", "c.lmay">>, <<"c.lmay">>, <<rf>> >>

ItemNames == <<"s1", "s2", "s3", "s4", "s5">>

VARIABLES
  rootFile,   \* the rootFile argument of validateProject
  docs,       \* path of a .lmay file on disk -> its parsed content
  pc,         \* position of ReferenceValidator.validateProject
  stack,      \* pending validateStructureReferences loops, innermost last
  loading,    \* the file whose loadLMAYFile is awaited at line 166, or <<>>
  dropped,    \* TRUE once the window on the stack lost its oldest frame
  fileMap,    \* this.fileMap keys, in insertion order
  errors,     \* this.errors
  warnings,   \* this.warnings
  dIdx,       \* loop index of discoverAndValidateReferences
  result,     \* value returned by validateProject
  hpc,        \* position of LMAYValidator.validateHierarchy
  hTree,      \* the nodes of the hierarchy tree, in pre-order
  hErrors,    \* hierarchyErrors
  hWarnings,  \* hierarchyWarnings
  opts,       \* the options of analyzeObsolescence
  lmayFiles,  \* its lmayFiles argument
  live,       \* the paths that exist besides the documents
  opc,        \* position of analyzeObsolescence
  oIdx,       \* its loop index
  analysis,   \* its result under construction
  dpc,        \* position of MaintenanceEngine.detectObsoletes
  shown,      \* the obsolete files displayObsoleteResults printed
  dExit,      \* the code given to process.exit, <<>> while none was
  vOpts,      \* this.options of the LMAYValidator
  vpc,        \* position of LMAYValidator.validateProject and of the CLI
  results,    \* this.results of the LMAYValidator
  exitCode,   \* the code lmay-validate gave to process.exit, or <<>>
  run,        \* 1 during the first validation of the project, 2 afterwards
  first,      \* the results the first validation returned
  instance,   \* the validator of the second validation: "same" or "fresh"
  info,       \* the structure item given to validateStructureItem
  spc,        \* position of SchemaValidator.validateStructureItem
  sErrors,    \* this.errors of the SchemaValidator
  sWarnings,  \* this.warnings of the SchemaValidator
  changeQueue,  \* the changeQueue Map of watchForChanges, insertion order
  timer,      \* TRUE while the debounced update is pending
  batches,    \* the arrays processChangeQueue took from the queue
  inFlight,   \* the batches whose processing is still awaited
  accepted    \* the events the watcher handlers accepted, in order

projVars == <<rootFile, docs>>
rvVars == <<pc, stack, loading, dropped, fileMap, errors, warnings, dIdx,
           result>>
hVars == <<hpc, hTree, hErrors, hWarnings>>
oVars == <<opts, lmayFiles, live, opc, oIdx, analysis>>
dVars == <<dpc, shown, dExit>>
vVars == <<vOpts, vpc, results, exitCode, run, first, instance>>
cliVars == <<dVars, vVars>>
sVars == <<info, spc, sErrors, sWarnings>>
wVars == <<changeQueue, timer, batches, inFlight, accepted>>
xVars == <<sVars, wVars>>

vars == <<projVars, rvVars, hVars, oVars, dVars, vVars, sVars, wVars>>

(***************************************************************************)
(* File system queries.                                                    *)
(***************************************************************************)
Dirs == {<<"p">>, <<"p", "sub">>}

\* fs.existsSync
Exists(p) == p \in DOMAIN docs \/ p \in Dirs

\* fs.statSync(p).isDirectory() ? 'directory' : 'file'
ActualType(p) == IF p \in Dirs THEN "directory" ELSE "file"

\* findAllLMAYFiles(projectPath): the directory entries in name order, the
\* sub-directory visited in place
FindAllLMAYFiles ==
  SelectSeq(<<DocA, DocB, RootDoc("main.lmay"), RootDoc("root.lmay"), DocC>>,
            LAMBDA f : f \in DOMAIN docs /\ EndsWithLmay(f))

Range(s) == {s[i] : i \in 1..Len(s)}

(***************************************************************************)
(* Findings.                                                               *)
(***************************************************************************)
Finding(t, f, at, cyc) == [type |-> t, file |-> f, at |-> at, cycle |-> cyc]

\* Array.prototype.push on a findings list (the list is cut at MaxFindings)
Push(list, f) == IF Len(list) < MaxFindings THEN Append(list, f) ELSE list

OfType(list, t) == SelectSeq(list, LAMBDA f : f.type = t)

(***************************************************************************)
(* loadLMAYFile                                                            *)
(***************************************************************************)
\* the value loadLMAYFile hands back is truthy
LoadsTruthy(p) == docs[p].kind = "map"

\* this.fileMap after loadLMAYFile(p)
LoadMap(fm, p) ==
  IF p \in Range(fm) \/ docs[p].kind = "bad" THEN fm ELSE Append(fm, p)

\* variant: a hit in the cache is reported as a circular reference
LoadErrors_CacheHitIsCycle(fm, errs, p) ==
  IF p \in Range(fm)
  THEN Push(errs, Finding("circular_reference", p, <<>>, <<>>))
  ELSE IF docs[p].kind = "bad"
       THEN Push(errs, Finding("file_load_error", p, <<>>, <<>>))
       ELSE errs

\* this.errors after loadLMAYFile(p)
LoadErrors(fm, errs, p) ==
  IF p \notin Range(fm) /\ docs[p].kind = "bad"
  THEN Push(errs, Finding("file_load_error", p, <<>>, <<>>))
  ELSE errs

(***************************************************************************)
(* validateStructureReferences / validateLMAYFileReference                 *)
(***************************************************************************)
\* the directory a nested-document link is resolved against while the
\* references are validated: the basePath argument (the project path)
ValidateBase(parentFile) == ProjectPath

\* errors after the `path` check of one structure entry
PathCheck(errs, file, item) ==
  IF item.path = <<>> THEN errs
  ELSE LET full == PathResolve(ProjectPath, item.path) IN
       IF ~Exists(full)
       THEN Push(errs, Finding("referenced_path_not_found", file,
                               <<"structure", item.name, "path">>, <<>>))
       ELSE IF item.type # None /\ item.type # ActualType(full)
            THEN Push(errs, Finding("type_mismatch", file,
                                    <<"structure", item.name, "type">>, <<>>))
            ELSE errs

\* a frame is one running validateStructureReferences loop
Frame(f, i) == [file |-> f, idx |-> i]

PushFrame(s, f) == IF Len(s) < MaxStack THEN Append(s, f)
                   ELSE Append(Tail(s), f)

Top == stack[Len(stack)]
Advanced == [stack EXCEPT ![Len(stack)].idx = @ + 1]

\* validateProject up to the first validateFileReferences (lines 16-37)
RV_Start ==
  /\ pc = "idle"
  /\ LET rootPath == PathJoin(ProjectPath, <<rootFile>>) IN
     IF ~Exists(rootPath)
     THEN /\ errors' = <<Finding("root_file_not_found", rootPath, <<>>, <<>>)>>
          /\ fileMap' = <<>>
          /\ stack' = <<>>
          /\ pc' = "done"
          /\ result' = FALSE
     ELSE /\ errors' = LoadErrors(<<>>, <<>>, rootPath)
          /\ fileMap' = LoadMap(<<>>, rootPath)
          /\ IF LoadsTruthy(rootPath)
             THEN /\ stack' = <<Frame(rootPath, 1)>>
                  /\ pc' = "validate"
                  /\ result' = result
             ELSE /\ stack' = <<>>
                  /\ pc' = "done"
                  /\ result' = FALSE
  /\ warnings' = <<>>
  /\ loading' = <<>>
  /\ dIdx' = 1
  /\ dropped' = FALSE
  /\ UNCHANGED <<projVars, xVars, cliVars, hVars, oVars>>

\* one iteration of the loop of validateStructureReferences (lines 101-135),
\* validateLMAYFileReference included up to the await of line 166
RV_Item ==
  /\ pc = "validate"
  /\ stack # <<>>
  /\ loading = <<>>
  /\ Top.idx <= Len(docs[Top.file].structure)
  /\ LET item == docs[Top.file].structure[Top.idx]
         errs1 == PathCheck(errors, Top.file, item)
         full == PathResolve(ValidateBase(Top.file), item.lmay_file)
         at == <<"structure", item.name, "lmay_file">>
     IN
     IF item.lmay_file = <<>>
     THEN /\ errors' = errs1
          /\ UNCHANGED <<warnings, fileMap, loading>>
     ELSE IF ~Exists(full)
     THEN /\ errors' = Push(errs1, Finding("lmay_file_not_found", Top.file,
                                           at, <<>>))
          /\ UNCHANGED <<warnings, fileMap, loading>>
     ELSE /\ warnings' = IF EndsWithLmay(item.lmay_file) THEN warnings
                         ELSE Push(warnings,
                                   Finding("invalid_lmay_extension", Top.file,
                                           at, <<>>))
          /\ errors' = LoadErrors(fileMap, errs1, full)
          /\ fileMap' = LoadMap(fileMap, full)
          /\ loading' = full
  /\ stack' = Advanced
  /\ UNCHANGED <<projVars, xVars, cliVars, hVars, oVars, pc, dropped, dIdx,
                 result>>

\* validateLMAYFileReference after the await (lines 166-170): the recursive
\* validateFileReferences on the document that was loaded
RV_Resume ==
  /\ pc = "validate"
  /\ loading # <<>>
  /\ IF LoadsTruthy(loading)
     THEN /\ stack' = PushFrame(stack, Frame(loading, 1))
          /\ dropped' = (dropped \/ Len(stack) = MaxStack)
     ELSE UNCHANGED <<stack, dropped>>
  /\ loading' = <<>>
  /\ UNCHANGED <<projVars, xVars, cliVars, hVars, oVars, pc, fileMap, errors,
                 warnings, dIdx, result>>

\* the loop of validateStructureReferences is over: validateFileReferences
\* returns to the call that awaits it
RV_Return ==
  /\ pc = "validate"
  /\ stack # <<>>
  /\ loading = <<>>
  /\ Top.idx > Len(docs[Top.file].structure)
  /\ stack' = SubSeq(stack, 1, Len(stack) - 1)
  /\ pc' = IF Len(stack) = 1 THEN "discover" ELSE "validate"
  /\ UNCHANGED <<projVars, xVars, cliVars, hVars, oVars, loading, dropped,
                 fileMap, errors, warnings, dIdx, result>>

\* one iteration of the loop of discoverAndValidateReferences (lines 239-246)
RV_Discover ==
  /\ pc = "discover"
  /\ dIdx <= Len(FindAllLMAYFiles)
  /\ LET lmayFile == FindAllLMAYFiles[dIdx] IN
     IF lmayFile \in Range(fileMap)
     THEN UNCHANGED <<fileMap, errors, stack, pc>>
     ELSE /\ errors' = LoadErrors(fileMap, errors, lmayFile)
          /\ fileMap' = LoadMap(fileMap, lmayFile)
          /\ IF LoadsTruthy(lmayFile)
             THEN /\ stack' = <<Frame(lmayFile, 1)>>
                  /\ pc' = "validate"
             ELSE UNCHANGED <<stack, pc>>
  /\ dIdx' = dIdx + 1
  /\ UNCHANGED <<projVars, xVars, cliVars, hVars, oVars, loading, dropped,
                 warnings, result>>

(***************************************************************************)
(* detectCircularReferences                                                *)
(***************************************************************************)
\* data && data.structure, for a key of this.fileMap
HasStructure(p) == docs[p].kind = "map" /\ docs[p].structure # <<>>

\* Inside detectCircularReferencesRecursive the name `path` is the fourth
\* parameter (an array, line 303), not the module required at line 2: the
\* array has neither `resolve` nor `dirname`, so line 311 raises a TypeError.
PathParamIsModule == FALSE

\* the set a reference is looked up in to call it circular (line 313)
CycleLookup(st) == st.recursionStack

RECURSIVE DCRR(_, _, _, _)
RECURSIVE DCRRItems(_, _, _, _, _)

\* detectCircularReferencesRecursive(filePath, visited, recursionStack, path)
\* st holds visited, recursionStack, the errors and whether a throw unwinds
DCRR(fm, filePath, st, trail) ==
  LET st1 == [st EXCEPT !.visited = @ \cup {filePath},
                        !.recursionStack = @ \cup {filePath}]
      st2 == IF HasStructure(filePath)
             THEN DCRRItems(fm, filePath, 1, st1, trail)
             ELSE st1
  IN IF st2.thrown THEN st2
     ELSE [st2 EXCEPT !.recursionStack = @ \ {filePath}]

\* the loop over Object.entries(data.structure), lines 309-331
DCRRItems(fm, filePath, i, st, trail) ==
  IF st.thrown \/ i > Len(docs[filePath].structure) THEN st
  ELSE LET item == docs[filePath].structure[i] IN
    IF item.lmay_file = <<>>
    THEN DCRRItems(fm, filePath, i + 1, st, trail)
    ELSE IF ~PathParamIsModule
    THEN [st EXCEPT !.thrown = TRUE]
    ELSE LET referencedPath ==
               PathResolve(PathDirname(filePath), item.lmay_file)
             cyc == Append(Append(trail, filePath), referencedPath)
         IN
         IF referencedPath \in CycleLookup(st)
         THEN DCRRItems(fm, filePath, i + 1,
                [st EXCEPT !.errs =
                   Push(@, Finding("circular_reference", filePath,
                           <<"structure", item.name, "lmay_file">>, cyc))],
                trail)
         ELSE IF referencedPath \notin st.visited
                 /\ referencedPath \in Range(fm)
              THEN DCRRItems(fm, filePath, i + 1,
                     DCRR(fm, referencedPath, st, Append(trail, filePath)),
                     trail)
              ELSE DCRRItems(fm, filePath, i + 1, st, trail)

RECURSIVE DCRLoop(_, _, _)
\* the loop over this.fileMap.keys(), lines 293-297
DCRLoop(fm, k, st) ==
  IF st.thrown \/ k > Len(fm) THEN st
  ELSE DCRLoop(fm, k + 1,
               IF fm[k] \in st.visited THEN st
               ELSE DCRR(fm, fm[k], st, <<>>))

\* detectCircularReferences(): the errors afterwards, and whether it threw
DetectCircularReferences(fm, errs) ==
  DCRLoop(fm, 1, [visited |-> {}, recursionStack |-> {}, errs |-> errs,
                  thrown |-> FALSE])

(***************************************************************************)
(* detectOrphanFiles                                                       *)
(***************************************************************************)
\* the file detectOrphanFiles marks as referenced from the start (line 345)
OrphanRootFile == PathJoin(ProjectPath, <<"root.lmay">>)

\* referencedFiles, lines 342-360
ReferencedFiles(fm) ==
  (IF OrphanRootFile \in Range(FindAllLMAYFiles) THEN {OrphanRootFile} ELSE {})
  \cup { PathResolve(PathDirname(f), docs[f].structure[i].lmay_file) :
           <<f, i>> \in { fi \in Range(fm) \X (1..Len(ItemNames)) :
                           /\ HasStructure(fi[1])
                           /\ fi[2] <= Len(docs[fi[1]].structure)
                           /\ docs[fi[1]].structure[fi[2]].lmay_file # <<>> } }

RECURSIVE OrphanWarnings(_, _, _, _)
\* the loop of lines 363-371 over allLMAYFiles
OrphanWarnings(all, k, refd, warns) ==
  IF k > Len(all) THEN warns
  ELSE OrphanWarnings(all, k + 1, refd,
         IF all[k] \in refd THEN warns
         ELSE Push(warns, Finding("orphan_lmay_file", all[k], <<>>, <<>>)))

\* the error the catch block of validateProject records (lines 44-50)
CaughtError == Finding("validation_error",
                       PathJoin(ProjectPath, <<rootFile>>), <<>>, <<>>)

\* the end of discoverAndValidateReferences (lines 248-252) and the return
\* of validateProject (line 42), or its catch block (lines 44-50)
RV_Detect ==
  /\ pc = "discover"
  /\ dIdx > Len(FindAllLMAYFiles)
  /\ LET st == DetectCircularReferences(fileMap, errors) IN
     IF st.thrown
     THEN /\ errors' = Push(st.errs, CaughtError)
          /\ warnings' = warnings
          /\ result' = FALSE
     ELSE /\ errors' = st.errs
          /\ warnings' = OrphanWarnings(FindAllLMAYFiles, 1,
                                        ReferencedFiles(fileMap), warnings)
          /\ result' = (Len(st.errs) = 0)
  /\ pc' = "done"
  /\ UNCHANGED <<projVars, xVars, cliVars, hVars, oVars, stack, loading,
                 dropped, fileMap, dIdx>>

(***************************************************************************)
(* Projects and the specification of ReferenceValidator.validateProject.   *)
(***************************************************************************)
RECURSIVE SubsetsUpTo(_, _)
SubsetsUpTo(S, k) ==
  IF k = 0 THEN {{}}
  ELSE LET prev == SubsetsUpTo(S, k - 1)
       IN prev \cup {T \cup {x} : T \in prev, x \in S}

LinkItem(l, i) ==
  [name |-> ItemNames[i], path |-> <<>>, type |-> None, lmay_file |-> l]

RECURSIVE Numbered(_, _)
\* the entries of a structure, named s1, s2, ... in key order
Numbered(links, i) ==
  IF links = <<>> THEN <<>>
  ELSE <<LinkItem(Head(links), i)>> \o Numbered(Tail(links), i + 1)

\* the document that declares the links `chosen` (pairs of document, link)
DocOf(rf, d, chosen) ==
  [kind |-> "map",
   structure |-> Numbered(SelectSeq(LinkOrder(rf),
                                    LAMBDA l : <<d, l>> \in chosen), 1),
   hdepth |-> <<>>,
   schema |-> TRUE]

LinkPairs(rf) == DocPaths(rf) \X Range(LinkOrder(rf))

\* the projects that declare at most k links
ProjectsUpTo(rf, k) ==
  { [d \in DocPaths(rf) |-> DocOf(rf, d, chosen)] :
      chosen \in SubsetsUpTo(LinkPairs(rf), k) }

Projects(rf) == ProjectsUpTo(rf, MaxLinks)

\* the ReferenceValidator as constructed (lines 6-10)
RVIdle ==
  /\ pc = "idle"
  /\ stack = <<>>
  /\ loading = <<>>
  /\ dropped = FALSE
  /\ fileMap = <<>>
  /\ errors = <<>>
  /\ warnings = <<>>
  /\ dIdx = 1
  /\ result = FALSE

\* validateHierarchy not called
HIdle ==
  /\ hpc = "idle"
  /\ hTree = <<>>
  /\ hErrors = <<>>
  /\ hWarnings = <<>>

\* the options of the obsolete command (part_011, lines 15-29); a flag that
\* is not given is undefined, which every test of the code reads as false
Options(t, s, ac, dr) ==
  [threshold |-> t, strict |-> s, autoClean |-> ac, dryRun |-> dr]

\* analyzeObsolescence not called
OIdle ==
  /\ opts = Options("30", FALSE, FALSE, FALSE)
  /\ lmayFiles = <<>>
  /\ live = {}
  /\ opc = "idle"
  /\ oIdx = 1
  /\ analysis = [obsolete |-> <<>>, outdated |-> <<>>, valid |-> <<>>]

\* detectObsoletes not called
DIdle ==
  /\ dpc = "idle"
  /\ shown = <<>>
  /\ dExit = <<>>

\* the LMAYValidator as constructed (validator.js, lines 7-25)
NewResults == [valid |-> FALSE, errors |-> <<>>, warnings |-> <<>>]

ValidatorOptions(s, r, h) ==
  [strict |-> s, checkReferences |-> r, checkHierarchy |-> h]

VIdle ==
  /\ vOpts = ValidatorOptions(FALSE, TRUE, TRUE)
  /\ vpc = "idle"
  /\ results = NewResults
  /\ exitCode = <<>>
  /\ run = 1
  /\ first = NewResults
  /\ instance = "same"

\* one entry of the structure mapping of a document, as validateStructureItem
\* reads it (part_009, lines 291-323); an absent key is None or <<>>
StructureItem(n, p, t, c, l) ==
  [name |-> n, path |-> p, type |-> t, file_count |-> c,
   primary_language |-> l]

\* no structure item is under validation
SIdle ==
  /\ info = StructureItem("src", <<>>, None, <<>>, None)
  /\ spc = "idle"
  /\ sErrors = <<>>
  /\ sWarnings = <<>>

\* the updater is not watching
WIdle ==
  /\ changeQueue = <<>>
  /\ timer = FALSE
  /\ batches = <<>>
  /\ inFlight = {}
  /\ accepted = <<>>

InitRef ==
  /\ rootFile \in RootFiles
  /\ docs \in Projects(rootFile)
  /\ RVIdle
  /\ HIdle
  /\ DIdle
  /\ SIdle
  /\ WIdle
  /\ VIdle
  /\ OIdle

NextRef ==
  RV_Start \/ RV_Item \/ RV_Resume \/ RV_Return \/ RV_Discover \/ RV_Detect

SpecRef == InitRef /\ [][NextRef]_vars

\* validateProject is the only activity of the process: it keeps running
FairSpecRef == SpecRef /\ WF_vars(NextRef)

(***************************************************************************)
(* The nested-document graph the claims speak of: a link of a document     *)
(* leads to the document it names relative to the directory of the         *)
(* declaring document.                                                     *)
(***************************************************************************)
LinkTargets(f) ==
  { PathResolve(PathDirname(f), docs[f].structure[i].lmay_file) :
      i \in { j \in 1..Len(docs[f].structure) :
                docs[f].structure[j].lmay_file # <<>> } } \cap DOMAIN docs

RECURSIVE ReachFrom(_)
ReachFrom(S) ==
  LET n == S \cup UNION { LinkTargets(f) : f \in S }
  IN IF n = S THEN S ELSE ReachFrom(n)

OnCycle(d) == d \in ReachFrom(LinkTargets(d))
CyclicGraph == \E d \in DOMAIN docs : OnCycle(d)

TheRoot == PathJoin(ProjectPath, <<rootFile>>)

\* a document that two different documents reachable from the root link to
Diamond ==
  \E x \in ReachFrom({TheRoot}), y \in ReachFrom({TheRoot}) :
     x # y /\ LinkTargets(x) \cap LinkTargets(y) # {}

\* the loop over the files of the project stays within the model's windows
RefWindowsExact == pc = "done" => (~dropped /\ Len(errors) < MaxFindings)

(***************************************************************************)
(* Claims about ReferenceValidator.validateProject                         *)
(***************************************************************************)

\* C1: validateProject returns after finitely many steps for every finite
\* project, whatever the shape of the nested-document link graph.
C1_ValidateProjectReturns == <>(pc = "done")

\* C2: on a link graph with a cycle (a self-reference included) the project
\* validation reports exactly one circular_reference finding, whose cycle
\* field lists the loop (it ends on a document that occurs earlier in it).
C2_OneCircularReferencePerCycle ==
  (pc = "done" /\ CyclicGraph) =>
     LET cr == OfType(errors, "circular_reference") IN
       /\ Len(cr) = 1
       /\ Len(cr[1].cycle) >= 2
       /\ \E i \in 1..(Len(cr[1].cycle) - 1) :
             cr[1].cycle[i] = cr[1].cycle[Len(cr[1].cycle)]

\* C3: on an acyclic link graph, diamonds included, no circular_reference
\* finding is ever reported.
C3_NoCircularReferenceWhenAcyclic ==
  ~CyclicGraph => OfType(errors, "circular_reference") = <<>>

\* a diamond-shaped acyclic project has been validated to the end
C3_DiamondValidated == pc = "done" /\ ~CyclicGraph /\ Diamond

\* C4: after project validation a discoverable .lmay document carries an
\* orphan_lmay_file warning iff it is not reachable from the root document
\* through nested-document links; the finding is a warning, never an error.
C4_OrphanIffUnreachable ==
  pc = "done" =>
    /\ \A f \in Range(FindAllLMAYFiles) :
         (f \notin ReachFrom({TheRoot}))
           <=> Len(SelectSeq(warnings, LAMBDA w :
                     w.type = "orphan_lmay_file" /\ w.file = f)) = 1
    /\ \A f \in Range(FindAllLMAYFiles) :
         (f \in ReachFrom({TheRoot}))
           <=> Len(SelectSeq(warnings, LAMBDA w :
                     w.type = "orphan_lmay_file" /\ w.file = f)) = 0
    /\ OfType(errors, "orphan_lmay_file") = <<>>

\* C5: the root document, i.e. the file named by the rootFile argument, is
\* never reported as an orphan.
C5_RootNeverOrphan ==
  \A i \in 1..Len(warnings) :
     warnings[i].type = "orphan_lmay_file" => warnings[i].file # TheRoot

(***************************************************************************)
(* LMAYValidator.validateHierarchy (validator.js)                          *)
(***************************************************************************)
MaxHierLinks == 4       \* lmay_file links of a project given to the pass
MaxDeclaredDepth == 3   \* largest hierarchy.depth a document declares
MaxHierarchyDepth == 10 \* maxDepth default of validateHierarchyConsistency

\* yamlValidator.validateFile(p) returns a truthy parsed document
Parses(p) == p \in DOMAIN docs /\ docs[p].kind = "map"

\* a node of the tree: its file, its depth field, and the structure entries
\* followed from the root to reach it
Node(f, d, trail) == [file |-> f, depth |-> d, trail |-> trail]

\* depth of the node under construction when a child is attached to it: the
\* literal of line 139, the parent assigns the node's own depth only later
DepthAtAttach == 0

\* lines 155-159: the child gets parent.depth + 1, its own descendants keep
\* the depth they were given when they were attached to it
AttachChild(sub, parentDepth) ==
  [sub EXCEPT ![1].depth = parentDepth + 1]

\* a variant that answers a revisited document with a childless node
\* instead of throwing
CircularReference_ReturnsLeaf(rootPath, trail) ==
  [thrown |-> FALSE, nodes |-> <<Node(rootPath, 0, trail)>>]

\* lines 124-126: a document already on the way from the root throws
CircularReference(rootPath, trail) ==
  [thrown |-> TRUE, nodes |-> <<>>]

RECURSIVE BuildHierarchyTree(_, _, _)
RECURSIVE BuildChildren(_, _, _, _)

\* buildHierarchyTree(projectPath, rootFile, visited): thrown, or the nodes
\* of the subtree in pre-order
BuildHierarchyTree(rootPath, visited, trail) ==
  IF rootPath \in visited THEN CircularReference(rootPath, trail)
  ELSE IF ~Parses(rootPath) THEN [thrown |-> TRUE, nodes |-> <<>>]
  ELSE [thrown |-> FALSE,
        nodes |-> <<Node(rootPath, 0, trail)>>
                  \o BuildChildren(rootPath, 1, visited \cup {rootPath},
                                   trail)]

\* the loop of lines 145-164; an exception of a child is swallowed (160-162)
BuildChildren(rootPath, i, visited, trail) ==
  IF i > Len(docs[rootPath].structure) THEN <<>>
  ELSE LET item == docs[rootPath].structure[i]
           rest == BuildChildren(rootPath, i + 1, visited, trail)
       IN IF item.lmay_file = <<>> THEN rest
          ELSE LET childPath ==
                     PathResolve(PathDirname(rootPath), item.lmay_file)
                   sub == BuildHierarchyTree(childPath, visited,
                                             Append(trail, i))
               IN IF sub.thrown THEN rest
                  ELSE AttachChild(sub.nodes, DepthAtAttach) \o rest

\* the checks of validateHierarchyConsistency and validateHierarchyMetadata
\* on one node (lines 175-187, 202-209); the documents declare no parent
NodeWarnings(n) ==
  IF n.depth > MaxHierarchyDepth
  THEN <<Finding("excessive_hierarchy_depth", n.file, <<>>, <<>>)>>
  ELSE <<>>

NodeErrors(n) ==
  IF docs[n.file].hdepth # <<>> /\ docs[n.file].hdepth[1] # n.depth
  THEN <<Finding("incorrect_hierarchy_depth", n.file,
                 <<"hierarchy", "depth">>, <<>>)>>
  ELSE <<>>

RECURSIVE CollectErrors(_, _)
\* the errors of the pre-order walk of validateHierarchyConsistency
CollectErrors(nodes, i) ==
  IF i > Len(nodes) THEN <<>>
  ELSE NodeErrors(nodes[i]) \o CollectErrors(nodes, i + 1)

RECURSIVE CollectWarnings(_, _)
\* the warnings of the pre-order walk of validateHierarchyConsistency
CollectWarnings(nodes, i) ==
  IF i > Len(nodes) THEN <<>>
  ELSE NodeWarnings(nodes[i]) \o CollectWarnings(nodes, i + 1)

\* levelCounts[d] of validateDepthLevels
LevelCount(nodes, d) == Len(SelectSeq(nodes, LAMBDA n : n.depth = d))
Levels(nodes) == {nodes[i].depth : i \in 1..Len(nodes)}

\* analyzeDepthDistribution (lines 250-276): its warnings carry no file
DepthWarnings(nodes) ==
  LET maxLevel == CHOOSE m \in Levels(nodes) : \A l \in Levels(nodes) : l <= m
      flat == IF maxLevel <= 1 /\ LevelCount(nodes, 1) > 10
              THEN <<Finding("flat_hierarchy", <<>>, <<>>, <<>>)>>
              ELSE <<>>
      \* the level just below l among the levels present
      Prev(l) == CHOOSE q \in Levels(nodes) :
                   q < l /\ \A r \in Levels(nodes) : r < l => r <= q
      unb == { l \in Levels(nodes) :
                 /\ \E q \in Levels(nodes) : q < l
                 /\ LevelCount(nodes, l) > LevelCount(nodes, Prev(l)) * 3 }
      RECURSIVE Unbalanced(_)
      Unbalanced(l) ==
        IF l > maxLevel THEN <<>>
        ELSE (IF l \in unb
              THEN <<Finding("unbalanced_hierarchy", <<>>, <<>>, <<>>)>>
              ELSE <<>>) \o Unbalanced(l + 1)
  IN flat \o Unbalanced(0)

\* validateHierarchy(projectPath, rootFile), lines 87-116
ValidateHierarchy ==
  /\ hpc = "idle"
  /\ LET built == BuildHierarchyTree(PathJoin(ProjectPath, <<rootFile>>),
                                     {}, <<>>)
     IN IF built.thrown
        THEN /\ hTree' = <<>>
             /\ hErrors' = <<Finding("hierarchy_build_error",
                                     PathJoin(ProjectPath, <<rootFile>>),
                                     <<>>, <<>>)>>
             /\ hWarnings' = <<>>
        ELSE /\ hTree' = built.nodes
             /\ hErrors' = CollectErrors(built.nodes, 1)
             /\ hWarnings' = CollectWarnings(built.nodes, 1)
                             \o DepthWarnings(built.nodes)
  /\ hpc' = "done"
  /\ UNCHANGED <<projVars, xVars, cliVars, rvVars, oVars>>

\* the declarations of hierarchy.depth: none, or one document declares one
Declarations(rf) ==
  {<<>>} \cup { <<d, h>> : d \in DocPaths(rf), h \in 0..MaxDeclaredDepth }

Declare(pr, decl) ==
  IF decl = <<>> THEN pr ELSE [pr EXCEPT ![decl[1]].hdepth = <<decl[2]>>]

InitHier ==
  /\ rootFile = "root.lmay"
  /\ \E pr \in ProjectsUpTo(rootFile, MaxHierLinks),
        decl \in Declarations(rootFile) : docs = Declare(pr, decl)
  /\ RVIdle
  /\ HIdle
  /\ DIdle
  /\ SIdle
  /\ WIdle
  /\ VIdle
  /\ OIdle

NextHier == ValidateHierarchy

SpecHier == InitHier /\ [][NextHier]_vars

(***************************************************************************)
(* Claims about the hierarchy pass                                         *)
(***************************************************************************)

\* C6: every node's computed depth equals the number of nested-document
\* link hops from the root to that node.
C6_DepthIsHopCount ==
  hpc = "done" =>
    \A i \in 1..Len(hTree) : hTree[i].depth = Len(hTree[i].trail)

\* the documents that occur exactly once in the tree, and their hop count
OccursOnce(d) == Len(SelectSeq(hTree, LAMBDA n : n.file = d)) = 1
HopsOf(d) == Len(hTree[CHOOSE i \in 1..Len(hTree) : hTree[i].file = d].trail)

DepthErrorsFor(d) ==
  Len(SelectSeq(hErrors, LAMBDA e :
        e.type = "incorrect_hierarchy_depth" /\ e.file = d))

\* C7: a document of the hierarchy that declares a hierarchy.depth other
\* than its number of link hops from the root produces exactly one
\* incorrect_hierarchy_depth error, one that declares its hop count none.
C7_DepthMismatchReportedOnce ==
  hpc = "done" =>
    \A d \in DOMAIN docs :
       (OccursOnce(d) /\ docs[d].hdepth # <<>>) =>
          DepthErrorsFor(d) = (IF docs[d].hdepth[1] # HopsOf(d) THEN 1 ELSE 0)

\* a document path met twice on one root-to-node path
PathRevisited == \E d \in ReachFrom({TheRoot}) : OnCycle(d)

\* C8: when the hierarchy build meets the same resolved document path twice
\* on one root-to-node path, the hierarchy results hold a circular_reference
\* error.
C8_HierarchyCycleReported ==
  (hpc = "done" /\ PathRevisited) =>
     \E i \in 1..Len(hErrors) : hErrors[i].type = "circular_reference"

(***************************************************************************)
(* MaintenanceEngine.analyzeObsolescence (tools/maintenance/README.md)     *)
(*                                                                         *)
(* Time is counted in ticks of 1000 ms, so that 45 days fit TLC's 32-bit   *)
(* integers; every age of the model is a whole number of ticks.            *)
(***************************************************************************)
MaxFiles == 2    \* documents handed to analyzeObsolescence
MaxLines == 2    \* lines of a document that name a reference

\* 24 * 60 * 60 * 1000 ms (lines 1017, 1046)
TicksPerDay == 24 * 60 * 60

\* parseInt(options.threshold)
ParseInt(str) == CASE str = "30" -> 30 [] str = "7" -> 7

\* Math.round(a / b) for a >= 0, b > 0
MathRound(a, b) == (2 * a + b) \div (2 * b)

\* the lines a document is made of: a key, the path written after it and
\* the way the scalar is written
Line(k, v, st) == [key |-> k, val |-> v, style |-> st]

LineChoices ==
  << Line("path", <<"src">>, "double"),
     Line("path", <<"src">>, "single"),
     Line("lmay_file", <<"a.lmay">>, "double"),
     Line("parent", <<"root.lmay">>, "plain") >>

\* the text `path:` occurs in the line (regular expression of line 1069)
MatchesPath(line) == line.key = "path"

\* line.includes('parent:') (line 1078)
IncludesParent(line) == line.key = "parent"

\* the text both expressions keep: an optional double quote is dropped on
\* either side, anything else written around the scalar stays in the text
Extracted(line) ==
  [val |-> line.val, clean |-> line.style \in {"double", "plain"}]

RECURSIVE ExtractFileReferences(_)
\* extractFileReferences(content), lines 1063-1087
ExtractFileReferences(content) ==
  IF content = <<>> THEN <<>>
  ELSE LET line == Head(content) IN
       (IF MatchesPath(line) THEN <<Extracted(line)>> ELSE <<>>)
       \o (IF IncludesParent(line) THEN <<Extracted(line)>> ELSE <<>>)
       \o ExtractFileReferences(Tail(content))

\* fs.pathExists(path.resolve(path.dirname(file.path), ref))
RefExists(file, ref) ==
  /\ ref.clean
  /\ LET refPath == PathResolve(PathDirname(file.path), ref.val)
     IN refPath \in live \/ refPath \in DocPaths("root.lmay")
        \/ refPath \in Dirs

\* variant: the promise of fs.pathExists is tested without being awaited
HasValidReferences_NoAwait(file, refs) == refs # <<>>

RECURSIVE HasValidReferences(_, _)
\* the loop of lines 1036-1042
HasValidReferences(file, refs) ==
  IF refs = <<>> THEN FALSE
  ELSE IF RefExists(file, Head(refs)) THEN TRUE
       ELSE HasValidReferences(file, Tail(refs))

\* variant: the threshold is left in days
ExceedsThreshold_InDays(age, threshold) == age > ParseInt(threshold)

\* age > thresholdMs (line 1029)
ExceedsThreshold(age, threshold) == age > ParseInt(threshold) * TicksPerDay

ObsoleteReason == "References non-existent files"

Entry(file, reason, days) ==
  [path |-> file.path, reason |-> reason, age |-> days]

\* analyzeObsolescence up to its loop (lines 1017-1024)
AO_Start ==
  /\ opc = "idle"
  /\ opc' = "loop"
  /\ oIdx' = 1
  /\ analysis' = [obsolete |-> <<>>, outdated |-> <<>>, valid |-> <<>>]
  /\ UNCHANGED <<projVars, xVars, cliVars, rvVars, hVars, opts, lmayFiles,
                 live>>

\* a variant whose push onto valid is not in an else branch
Classified_AlsoValid(an, file, threshold) ==
  LET references == ExtractFileReferences(file.content)
      days == MathRound(file.age, TicksPerDay)
      v == [an EXCEPT !.valid = Append(@, Entry(file, "", <<>>))]
  IN IF ExceedsThreshold(file.age, threshold)
     THEN IF ~HasValidReferences(file, references) /\ Len(references) > 0
          THEN [v EXCEPT !.obsolete =
                  Append(@, Entry(file, ObsoleteReason, <<days>>))]
          ELSE [v EXCEPT !.outdated = Append(@, Entry(file, "", <<days>>))]
     ELSE v

\* the body of the loop (lines 1027-1057): the analysis after `file`
Classified(an, file, threshold) ==
  LET references == ExtractFileReferences(file.content)
      days == MathRound(file.age, TicksPerDay)
  IN IF ExceedsThreshold(file.age, threshold)
     THEN IF ~HasValidReferences(file, references) /\ Len(references) > 0
          THEN [an EXCEPT !.obsolete =
                  Append(@, Entry(file, ObsoleteReason, <<days>>))]
          ELSE [an EXCEPT !.outdated = Append(@, Entry(file, "", <<days>>))]
     ELSE [an EXCEPT !.valid = Append(@, Entry(file, "", <<>>))]

\* one iteration of the loop (lines 1026-1058)
AO_File ==
  /\ opc = "loop"
  /\ oIdx <= Len(lmayFiles)
  /\ analysis' = Classified(analysis, lmayFiles[oIdx], opts.threshold)
  /\ oIdx' = oIdx + 1
  /\ UNCHANGED <<projVars, xVars, cliVars, rvVars, hVars, opts, lmayFiles,
                 live, opc>>

\* the loop is over: return analysis (line 1060)
AO_Return ==
  /\ opc = "loop"
  /\ oIdx > Len(lmayFiles)
  /\ opc' = "done"
  /\ UNCHANGED <<projVars, xVars, cliVars, rvVars, hVars, opts, lmayFiles,
                 live, oIdx, analysis>>

\* the documents of the project, in the order findLMAYFiles lists them
ObsFilePaths == <<RootDoc("root.lmay"), DocA, DocB, DocC>>

\* now - file.modified.getTime(), in ticks
Ages == {29 * TicksPerDay, 30 * TicksPerDay, 45 * TicksPerDay,
         45 * TicksPerDay + 12 * 60 * 60}

Contents ==
  { SelectSeq(LineChoices, LAMBDA l : l \in chosen) :
      chosen \in SubsetsUpTo(Range(LineChoices), MaxLines) }

RECURSIVE FileLists(_)
\* the lists of k documents
FileLists(k) ==
  IF k = 0 THEN {<<>>}
  ELSE { Append(fl, [path |-> ObsFilePaths[k], age |-> a, content |-> c]) :
           fl \in FileLists(k - 1), a \in Ages, c \in Contents }

InitObs ==
  /\ rootFile = "root.lmay"
  /\ docs = [d \in DocPaths("root.lmay") |-> DocOf("root.lmay", d, {})]
  /\ RVIdle
  /\ HIdle
  /\ DIdle
  /\ SIdle
  /\ WIdle
  /\ VIdle
  /\ opts \in {Options(t, FALSE, FALSE, FALSE) : t \in {"30", "7"}}
  /\ \E k \in 1..MaxFiles : lmayFiles \in FileLists(k)
  /\ live \in SUBSET {<<"p", "src">>}
  /\ opc = "idle"
  /\ oIdx = 1
  /\ analysis = [obsolete |-> <<>>, outdated |-> <<>>, valid |-> <<>>]

NextObs == AO_Start \/ AO_File \/ AO_Return

SpecObs == InitObs /\ [][NextObs]_vars

(***************************************************************************)
(* Claims about analyzeObsolescence                                        *)
(***************************************************************************)
Listed(list, file) == \E i \in 1..Len(list) : list[i].path = file.path
Analysed(i) == opc # "idle" /\ i < oIdx

ThresholdTicks == ParseInt(opts.threshold) * TicksPerDay

\* the references a document makes, and whether any of them exists
NoneResolves(file) ==
  \A i \in 1..Len(ExtractFileReferences(file.content)) :
     ~RefExists(file, ExtractFileReferences(file.content)[i])

\* C9: a document whose age is below thresholdDays is never classified
\* obsolete or outdated, whether or not its references resolve: it is valid.
C9_YoungDocumentIsValid ==
  \A i \in 1..Len(lmayFiles) :
     (Analysed(i) /\ lmayFiles[i].age < ThresholdTicks) =>
        /\ Listed(analysis.valid, lmayFiles[i])
        /\ ~Listed(analysis.obsolete, lmayFiles[i])
        /\ ~Listed(analysis.outdated, lmayFiles[i])

\* a young document with a reference that does not resolve was analysed
C9_YoungBrokenAnalysed ==
  \E i \in 1..Len(lmayFiles) :
     /\ Analysed(i)
     /\ lmayFiles[i].age < ThresholdTicks
     /\ ExtractFileReferences(lmayFiles[i].content) # <<>>
     /\ NoneResolves(lmayFiles[i])
     /\ Listed(analysis.valid, lmayFiles[i])

\* C10: a document older than the threshold with at least one extracted
\* reference, none of which resolves, is classified obsolete, with the
\* reason citing the non-existent references and its age in days (the
\* nearest whole number of days) recorded.
C10_StaleBrokenIsObsolete ==
  \A i \in 1..Len(lmayFiles) :
     (/\ Analysed(i)
      /\ lmayFiles[i].age > ThresholdTicks
      /\ ExtractFileReferences(lmayFiles[i].content) # <<>>
      /\ NoneResolves(lmayFiles[i])) =>
        /\ ~Listed(analysis.outdated, lmayFiles[i])
        /\ ~Listed(analysis.valid, lmayFiles[i])
        /\ \E j \in 1..Len(analysis.obsolete) :
              LET e == analysis.obsolete[j] IN
                /\ e.path = lmayFiles[i].path
                /\ e.reason = "References non-existent files"
                /\ Len(e.age) = 1
                /\ 2 * e.age[1] * TicksPerDay - TicksPerDay
                     <= 2 * lmayFiles[i].age
                /\ 2 * lmayFiles[i].age
                     <= 2 * e.age[1] * TicksPerDay + TicksPerDay

\* a document 45 days old, thresholdDays 30, whose one structure path was
\* deleted, is listed as obsolete with age 45
C10_ScenarioF ==
  /\ opc = "done"
  /\ opts.threshold = "30"
  /\ <<"p", "src">> \notin live
  /\ \E i \in 1..Len(lmayFiles) :
        /\ lmayFiles[i].age = 45 * TicksPerDay
        /\ lmayFiles[i].content = <<Line("path", <<"src">>, "double")>>
        /\ \E j \in 1..Len(analysis.obsolete) :
              /\ analysis.obsolete[j].path = lmayFiles[i].path
              /\ analysis.obsolete[j].age = <<45>>

\* the path a structure entry declares exists on disk
OnDisk(p) == p \in live \/ p \in DocPaths("root.lmay") \/ p \in Dirs

\* every structure entry of the document declares a path that exists
StructurePathsExist(file) ==
  \A k \in 1..Len(file.content) :
     file.content[k].key = "path" =>
        OnDisk(PathResolve(PathDirname(file.path), file.content[k].val))

\* the document has no extracted reference, or one that resolves
SomeResolvesOrNoReference(file) ==
  \/ ExtractFileReferences(file.content) = <<>>
  \/ ~NoneResolves(file)

\* C11: a document older than the threshold that has zero extracted
\* references, or at least one extracted reference that resolves, is
\* classified outdated and not obsolete; in particular a document older than
\* the threshold whose structure paths all still exist on disk is outdated.
C11_StaleUnbrokenIsOutdated ==
  \A i \in 1..Len(lmayFiles) :
     (/\ Analysed(i)
      /\ lmayFiles[i].age > ThresholdTicks
      /\ \/ SomeResolvesOrNoReference(lmayFiles[i])
         \/ StructurePathsExist(lmayFiles[i])) =>
        /\ Listed(analysis.outdated, lmayFiles[i])
        /\ ~Listed(analysis.obsolete, lmayFiles[i])

\* the first clause of C11 alone, in the terms of the extracted text
StaleWithResolvingTextIsOutdated ==
  \A i \in 1..Len(lmayFiles) :
     (/\ Analysed(i)
      /\ lmayFiles[i].age > ThresholdTicks
      /\ SomeResolvesOrNoReference(lmayFiles[i])) =>
        /\ Listed(analysis.outdated, lmayFiles[i])
        /\ ~Listed(analysis.obsolete, lmayFiles[i])

(***************************************************************************)
(* The references ReferenceValidator checks in the same document           *)
(***************************************************************************)
\* yaml.load gives the scalar itself, whichever way it is written
YamlScalar(line) == line.val

\* validateStructureReferences checks itemInfo.path (line 105) and
\* itemInfo.lmay_file (line 132) of every structure entry; hierarchy.parent
\* is read by none of the three checks of validateFileReferences
CheckedKeys == {"path", "lmay_file"}

CheckedReferences(content) ==
  { YamlScalar(content[k]) :
      k \in {j \in 1..Len(content) : content[j].key \in CheckedKeys} }

\* the texts extractFileReferences returns, as a set
ExtractedSet(content) == Range(ExtractFileReferences(content))

\* C12: for every document, the set of references the drift analyzer
\* extracts from the raw text is the same set of references the Reference
\* Validator finds and checks for that document.
C12_SameReferenceSet ==
  \A i \in 1..Len(lmayFiles) :
     (Analysed(i) /\ lmayFiles[i].age > ThresholdTicks) =>
        ExtractedSet(lmayFiles[i].content) =
          { [val |-> v, clean |-> TRUE] :
              v \in CheckedReferences(lmayFiles[i].content) }

(***************************************************************************)
(* MaintenanceEngine.detectObsoletes (tools/maintenance/README.md,         *)
(* lines 404-455), called by the obsolete command with its options.        *)
(* lmayFiles is what findLMAYFiles returned; the analysis itself is the    *)
(* steps AO_Start, AO_File and AO_Return above.                            *)
(***************************************************************************)
\* the class MaintenanceEngine (lines 398-1193) has no member of that name
PerformAutoCleanIsMethod == FALSE

ObsoletePaths ==
  [j \in 1..Len(analysis.obsolete) |-> analysis.obsolete[j].path]

\* the analysis returned: spinner.succeed and displayObsoleteResults
\* (lines 431-435, 1089-1111)
DO_Display ==
  /\ dpc = "idle"
  /\ opc = "done"
  /\ shown' = ObsoletePaths
  /\ dpc' = "displayed"
  /\ UNCHANGED <<projVars, xVars, rvVars, hVars, oVars, vVars, dExit>>

\* if (options.autoClean && obsoleteAnalysis.obsolete.length > 0)
WantsAutoClean == opts.autoClean /\ Len(analysis.obsolete) > 0

\* lines 437-440: this.performAutoClean(...) is a call of undefined; the
\* TypeError is caught at line 448 and the process exits with 1
DO_AutoClean ==
  /\ dpc = "displayed"
  /\ WantsAutoClean
  /\ ~PerformAutoCleanIsMethod
  /\ dpc' = "failed"
  /\ dExit' = <<1>>
  /\ UNCHANGED <<projVars, xVars, rvVars, hVars, oVars, vVars, shown>>

\* lines 442-447 without options.output: detectObsoletes returns
DO_Return ==
  /\ dpc = "displayed"
  /\ ~WantsAutoClean
  /\ dpc' = "done"
  /\ UNCHANGED <<projVars, xVars, rvVars, hVars, oVars, vVars, shown, dExit>>

\* now - file.modified.getTime() of the documents of a detection run
DetectAges == {29 * TicksPerDay, 45 * TicksPerDay}

RECURSIVE DetectFileLists(_)
DetectFileLists(k) ==
  IF k = 0 THEN {<<>>}
  ELSE { Append(fl, [path |-> ObsFilePaths[k], age |-> a, content |-> c]) :
           fl \in DetectFileLists(k - 1), a \in DetectAges, c \in Contents }

InitDetect ==
  /\ rootFile = "root.lmay"
  /\ docs = [d \in DocPaths("root.lmay") |-> DocOf("root.lmay", d, {})]
  /\ RVIdle
  /\ HIdle
  /\ DIdle
  /\ SIdle
  /\ WIdle
  /\ VIdle
  /\ opts \in {Options("30", s, ac, dr) :
                 s \in BOOLEAN, ac \in BOOLEAN, dr \in BOOLEAN}
  /\ \E k \in 1..MaxFiles : lmayFiles \in DetectFileLists(k)
  /\ live \in SUBSET {<<"p", "src">>}
  /\ opc = "idle"
  /\ oIdx = 1
  /\ analysis = [obsolete |-> <<>>, outdated |-> <<>>, valid |-> <<>>]

NextDetect ==
  AO_Start \/ AO_File \/ AO_Return \/ DO_Display \/ DO_AutoClean \/ DO_Return

SpecDetect == InitDetect /\ [][NextDetect]_vars

(***************************************************************************)
(* Claims about detectObsoletes                                            *)
(***************************************************************************)
\* some extracted reference of the document does not resolve
SomeUnresolved(file) ==
  \E k \in 1..Len(ExtractFileReferences(file.content)) :
     ~RefExists(file, ExtractFileReferences(file.content)[k])

\* C13: with the strict option set, a document older than the threshold
\* with any unresolved reference, even when other references resolve, is
\* classified obsolete.
C13_StrictAnyUnresolvedIsObsolete ==
  \A i \in 1..Len(lmayFiles) :
     (/\ opts.strict
      /\ Analysed(i)
      /\ lmayFiles[i].age > ThresholdTicks
      /\ SomeUnresolved(lmayFiles[i])) =>
        Listed(analysis.obsolete, lmayFiles[i])

DetectEnded == dpc \in {"done", "failed"}

\* C14: with auto-clean and dry-run both set and at least one document
\* classified obsolete, the detection reports the deletion set (exactly the
\* documents classified obsolete) and completes, no file being deleted.
C14_DryRunReportsAndCompletes ==
  (/\ DetectEnded
   /\ opts.autoClean /\ opts.dryRun
   /\ Len(analysis.obsolete) > 0) =>
      /\ dpc = "done"
      /\ dExit = <<>>
      /\ Range(shown) = Range(ObsoletePaths)

(***************************************************************************)
(* LMAYValidator.validateProject (validator.js) and the exit code that    *)
(* lmay-validate derives from its result (cli.js, validateLMAY).           *)
(***************************************************************************)
MaxEntries == 3   \* structure entries declared in a project

\* variant: the results of the previous call are kept
ResetResults_KeepsFindings(res) == res

\* resetResults (lines 281-288)
ResetResults(res) == [valid |-> FALSE, errors |-> <<>>, warnings |-> <<>>]

\* mergeResults (lines 293-301)
MergeResults(res, errs, warns) ==
  [res EXCEPT !.errors = @ \o errs, !.warnings = @ \o warns]

\* variant: a warning makes the result invalid too
FinalizeResults_CountsWarnings(res) ==
  [res EXCEPT !.valid = (Len(res.errors) = 0 /\ Len(res.warnings) = 0)]

\* finalizeResults (lines 306-315)
FinalizeResults(res) == [res EXCEPT !.valid = (Len(res.errors) = 0)]

\* this.errors of the YAMLValidator after validateFile(p) (part_008, 13-80)
YamlErrors(p) ==
  IF p \notin DOMAIN docs
  THEN <<Finding("file_not_found", p, <<>>, <<>>)>>
  ELSE IF docs[p].kind = "empty"
       THEN <<Finding("empty_file", p, <<>>, <<>>)>>
       ELSE IF docs[p].kind = "bad"
            THEN <<Finding("yaml_syntax_error", p, <<>>, <<>>)>>
            ELSE <<>>

\* this.errors of the SchemaValidator after validateLMAY (part_009, 39-54)
SchemaErrors(p) ==
  IF docs[p].schema THEN <<>>
  ELSE <<Finding("missing_required_property", p, <<>>, <<>>)>>

\* LMAYValidator.validateFile (lines 30-48)
ValidateFile(res, p) ==
  LET yamlDone == MergeResults(ResetResults(res), YamlErrors(p), <<>>)
  IN IF ~Parses(p) THEN FinalizeResults(yamlDone)
     ELSE FinalizeResults(MergeResults(yamlDone, SchemaErrors(p), <<>>))

\* the step that follows the reference validation
AfterReferences == IF vOpts.checkHierarchy THEN "hier" ELSE "final"

\* validateProject up to its step 2 (lines 54-69)
V_Root ==
  /\ vpc = "idle"
  /\ LET rootValid ==
           ValidateFile(ResetResults(results),
                        PathJoin(ProjectPath, <<rootFile>>))
     IN /\ results' = rootValid
        /\ vpc' = IF ~rootValid.valid /\ ~vOpts.strict THEN "finished"
                  ELSE IF vOpts.checkReferences THEN "refs"
                       ELSE AfterReferences
  /\ UNCHANGED <<projVars, xVars, rvVars, hVars, oVars, dVars, vOpts,
                 exitCode, run, first, instance>>

\* line 71: the steps of ReferenceValidator.validateProject
V_References == vpc = "refs" /\ NextRef

\* line 72: mergeResults(this.referenceValidator.generateReport())
V_Merge ==
  /\ vpc = "refs"
  /\ pc = "done"
  /\ results' = MergeResults(results, errors, warnings)
  /\ vpc' = AfterReferences
  /\ UNCHANGED <<projVars, xVars, rvVars, hVars, oVars, dVars, vOpts,
                 exitCode, run, first, instance>>

\* line 78: validateHierarchy up to its line 107
V_Hierarchy == vpc = "hier" /\ ValidateHierarchy

\* validateHierarchy, lines 109-115
V_HierarchyResults ==
  /\ vpc = "hier"
  /\ hpc = "done"
  /\ results' = MergeResults(results, hErrors, hWarnings)
  /\ vpc' = "final"
  /\ UNCHANGED <<projVars, xVars, rvVars, hVars, oVars, dVars, vOpts,
                 exitCode, run, first, instance>>

\* line 81: return this.finalizeResults()
V_Finalize ==
  /\ vpc = "final"
  /\ results' = FinalizeResults(results)
  /\ vpc' = "finished"
  /\ UNCHANGED <<projVars, xVars, rvVars, hVars, oVars, dVars, vOpts,
                 exitCode, run, first, instance>>

\* cli.js, lines 105-117: generateDetailedReport finalizes once more, then
\* process.exit(results.valid ? 0 : 1)
CLI_Exit ==
  /\ vpc = "finished"
  /\ results' = FinalizeResults(results)
  /\ exitCode' = <<IF results.valid THEN 0 ELSE 1>>
  /\ vpc' = "exited"
  /\ UNCHANGED <<projVars, xVars, rvVars, hVars, oVars, dVars, vOpts, run,
                 first, instance>>

\* the same unchanged project is validated again, by the validator that
\* was used or by a new LMAYValidator (with its new ReferenceValidator)
V_Again ==
  /\ vpc = "exited"
  /\ run = 1
  /\ run' = 2
  /\ first' = results
  /\ vpc' = "idle"
  /\ exitCode' = <<>>
  /\ \E inst \in {"same", "fresh"} :
        /\ instance' = inst
        /\ IF inst = "fresh"
           THEN /\ results' = NewResults
                /\ pc' = "idle" /\ stack' = <<>> /\ loading' = <<>>
                /\ dropped' = FALSE /\ fileMap' = <<>> /\ errors' = <<>>
                /\ warnings' = <<>> /\ dIdx' = 1 /\ result' = FALSE
                /\ hpc' = "idle" /\ hTree' = <<>> /\ hErrors' = <<>>
                /\ hWarnings' = <<>>
           ELSE /\ pc' = "idle"
                /\ hpc' = "idle"
                /\ UNCHANGED <<results, stack, loading, dropped, fileMap,
                               errors, warnings, dIdx, result, hTree,
                               hErrors, hWarnings>>
  /\ UNCHANGED <<projVars, xVars, oVars, dVars, vOpts>>

(***************************************************************************)
(* The projects lmay-validate is run on: root.lmay, a.lmay and b.lmay in   *)
(* the project directory, the directory sub present and src missing.       *)
(***************************************************************************)
\* what is found at the path of the root document: nothing, white space
\* only, comments only, text js-yaml rejects, or a mapping
RootStates == {"missing", "empty", "blank", "bad", "map"}

PathEntry(n) ==
  [name |-> n, path |-> <<n>>, type |-> None, lmay_file |-> <<>>]

\* the entries a structure may declare, in key order
EntryOrder ==
  << PathEntry("src"), PathEntry("sub"),
     LinkItem(<<"a.lmay">>, 1), LinkItem(<<"b.lmay">>, 2),
     LinkItem(<<"root.lmay">>, 3) >>

ValDocs == {RootDoc("root.lmay"), DocA, DocB}
EntryPairs == ValDocs \X Range(EntryOrder)

ValDoc(k, entries, ok) ==
  [kind |-> k, structure |-> entries, hdepth |-> <<>>, schema |-> ok]

ValProject(rootState, ok, chosen) ==
  [d \in (IF rootState = "missing" THEN {DocA, DocB} ELSE ValDocs) |->
     IF d = RootDoc("root.lmay") /\ rootState # "map"
     THEN ValDoc(rootState, <<>>, TRUE)
     ELSE ValDoc("map",
                 SelectSeq(EntryOrder, LAMBDA e : <<d, e>> \in chosen),
                 d = RootDoc("root.lmay") => ok)]

InitVal ==
  /\ rootFile = "root.lmay"
  /\ \E rootState \in RootStates, ok \in BOOLEAN,
        chosen \in SubsetsUpTo(EntryPairs, MaxEntries) :
        /\ rootState # "map" =>
             (ok /\ \A pr \in chosen : pr[1] # RootDoc("root.lmay"))
        /\ docs = ValProject(rootState, ok, chosen)
  /\ RVIdle
  /\ HIdle
  /\ OIdle
  /\ DIdle
  /\ SIdle
  /\ WIdle
  /\ vOpts \in {ValidatorOptions(s, r, h) :
                  s \in BOOLEAN, r \in BOOLEAN, h \in BOOLEAN}
  /\ vpc = "idle"
  /\ results = NewResults
  /\ exitCode = <<>>
  /\ run = 1
  /\ first = NewResults
  /\ instance = "same"

NextVal ==
  \/ V_Root
  \/ V_References
  \/ V_Merge
  \/ V_Hierarchy
  \/ V_HierarchyResults
  \/ V_Finalize
  \/ CLI_Exit
  \/ V_Again

SpecVal == InitVal /\ [][NextVal]_vars

(***************************************************************************)
(* Claims about LMAYValidator.validateProject and lmay-validate            *)
(***************************************************************************)
ValRoot == RootDoc("root.lmay")
ValidationEnded == vpc \in {"finished", "exited"}

\* how many times a finding is in a list
Count(list, f) == Cardinality({i \in 1..Len(list) : list[i] = f})

\* the two lists hold the same findings the same number of times
SameFindings(l1, l2) ==
  \A f \in Range(l1) \cup Range(l2) : Count(l1, f) = Count(l2, f)

\* C15: validating the same unchanged project twice, with the same
\* validator instance or a fresh one, yields the same errors and the same
\* warnings whatever their order (each finding as many times as before, so
\* the sets are identical): nothing of the first run leaks into the second.
C15_SecondRunSameFindings ==
  (run = 2 /\ ValidationEnded) =>
     /\ SameFindings(results.errors, first.errors)
     /\ SameFindings(results.warnings, first.warnings)

\* the validator that was used validated the project a second time and
\* found errors and warnings again
C15_SameInstanceRevalidated ==
  /\ run = 2
  /\ instance = "same"
  /\ vpc = "exited"
  /\ pc = "done"
  /\ Len(results.errors) > 0
  /\ Len(results.warnings) > 0

\* C16: the CLI exits with code 0 if and only if the aggregated result has
\* zero errors across all validators, whatever the number of warnings;
\* otherwise it exits with code 1.
C16_ExitCodeIsZeroIffNoErrors ==
  vpc = "exited" =>
     exitCode = <<IF Len(results.errors) = 0 THEN 0 ELSE 1>>

\* a run that ended with warnings and no error exited with 0
C16_WarningsOnlyExitZero ==
  /\ vpc = "exited"
  /\ Len(results.warnings) > 0
  /\ Len(results.errors) = 0
  /\ exitCode = <<0>>

\* the referenced_path_not_found errors for entry i of document d
PathNotFoundErrors(d, i) ==
  SelectSeq(errors,
            LAMBDA f : /\ f.type = "referenced_path_not_found"
                       /\ f.file = d
                       /\ f.at = <<"structure", docs[d].structure[i].name,
                                   "path">>)

\* entry i of document d declares a path that is not on disk
DeclaresMissingPath(d, i) ==
  /\ docs[d].structure[i].path # <<>>
  /\ ~Exists(PathResolve(ProjectPath, docs[d].structure[i].path))

\* C17: a structure entry whose declared path does not exist on disk
\* produces exactly one referenced_path_not_found error per project
\* validation, located at /structure/<name>/path (here for a project whose
\* root document loads, so that every document is visited).
C17_OnePathNotFoundPerEntry ==
  (pc = "done" /\ Parses(ValRoot)) =>
     \A d \in DOMAIN docs : \A i \in 1..Len(docs[d].structure) :
        DeclaresMissingPath(d, i) => Len(PathNotFoundErrors(d, i)) = 1

\* the root document cannot be loaded: it is missing, empty or not YAML
RootFailsToLoad == YamlErrors(ValRoot) # <<>>

\* C18: when the root document fails to load and the validator runs in
\* strict mode, the other documents discoverable under the project root are
\* still reference-checked.
C18_StrictChecksOtherDocuments ==
  (/\ ValidationEnded
   /\ vOpts.strict /\ vOpts.checkReferences
   /\ RootFailsToLoad) =>
      \A d \in DOMAIN docs \ {ValRoot} : d \in Range(fileMap)

\* the root document parses and violates the schema
RootSchemaError == Parses(ValRoot) /\ ~docs[ValRoot].schema

\* C19: a schema error in the root document makes the overall result
\* invalid but does not stop traversal: reference validation and hierarchy
\* validation are still carried out for the project.
C19_SchemaErrorDoesNotStopTraversal ==
  (/\ ValidationEnded
   /\ run = 1
   /\ vOpts.checkReferences /\ vOpts.checkHierarchy
   /\ RootSchemaError) =>
      /\ ~results.valid
      /\ pc = "done"
      /\ hpc = "done"

\* C20: ReferenceValidator.validateProject returns true if and only if
\* errors.length = 0 at the end of the call: a false result always comes
\* with at least one error finding.
C20_ResultIffNoErrors ==
  pc = "done" => (result <=> Len(errors) = 0)

(***************************************************************************)
(* ReferenceValidator.validateProject on projects in which a document      *)
(* other than the root may fail to load                                    *)
(***************************************************************************)
\* what is found at the path of a.lmay: a mapping, text js-yaml rejects, or
\* white space only
LinkedStates == {"map", "bad", "empty"}

LoadProject(aState, chosen) ==
  [d \in ValDocs |->
     IF d = DocA /\ aState # "map"
     THEN ValDoc(aState, <<>>, TRUE)
     ELSE ValDoc("map",
                 SelectSeq(EntryOrder, LAMBDA e : <<d, e>> \in chosen),
                 TRUE)]

InitLoad ==
  /\ rootFile = "root.lmay"
  /\ \E aState \in LinkedStates,
        chosen \in SubsetsUpTo(EntryPairs, MaxEntries) :
        /\ aState # "map" => \A pr \in chosen : pr[1] # DocA
        /\ docs = LoadProject(aState, chosen)
  /\ RVIdle
  /\ HIdle
  /\ OIdle
  /\ DIdle
  /\ SIdle
  /\ WIdle
  /\ VIdle

SpecLoad == InitLoad /\ [][NextRef]_vars

\* the times loadLMAYFile read the file p (line 63): a read either puts p
\* in fileMap (line 65), once, or pushes a file_load_error for p (line 68)
Reads(p) ==
  (IF p \in Range(fileMap) THEN 1 ELSE 0)
  + Len(SelectSeq(errors,
                  LAMBDA f : f.type = "file_load_error" /\ f.file = p))

\* C21: within one project validation each document file is read and
\* parsed at most once, whether it is reached as the root, through a
\* nested-document link or through directory discovery.
C21_EachFileReadAtMostOnce ==
  \A p \in DOMAIN docs : Reads(p) <= 1

\* the target of the link of entry i of document d, resolved from the
\* directory of d as lines 311 and 355 do
DeclaredTarget(d, i) ==
  PathResolve(PathDirname(d), docs[d].structure[i].lmay_file)

\* reference loading reported the link of entry i of d as not found
LinkNotFound(d, i) ==
  \E k \in 1..Len(errors) :
     /\ errors[k].type = "lmay_file_not_found"
     /\ errors[k].file = d
     /\ errors[k].at = <<"structure", docs[d].structure[i].name, "lmay_file">>

\* C22: every pass that follows nested-document links resolves a link
\* relative to the directory of the document that declares it; so reference
\* loading reports a link as not found exactly when the file it names,
\* seen from the declaring document's directory, does not exist.
C22_LinksResolvedFromDeclaringDirectory ==
  pc = "done" =>
     \A d \in Range(fileMap) : \A i \in 1..Len(docs[d].structure) :
        docs[d].structure[i].lmay_file # <<>> =>
           (LinkNotFound(d, i) <=> ~Exists(DeclaredTarget(d, i)))

\* the finding names its type and the source file it concerns (every
\* finding of the validators is pushed with a message)
CarriesTypeAndFile(f) == f.type # None /\ f.type # "" /\ f.file # <<>>

\* C23: every finding (error or warning) of a validation result carries a
\* type tag, a message and the source file it concerns; checked on the
\* findings of the hierarchy validation.
C23_FindingsCarryTypeAndFile ==
  hpc = "done" =>
     /\ \A i \in 1..Len(hErrors) : CarriesTypeAndFile(hErrors[i])
     /\ \A i \in 1..Len(hWarnings) : CarriesTypeAndFile(hWarnings[i])

(***************************************************************************)
(* validateHierarchy on deep projects: a chain of documents in the project *)
(* directory, each linking to the next one                                 *)
(***************************************************************************)
MaxChain == 12   \* documents below the root of the longest chain

ChainNames ==
  <<"root.lmay", "n01.lmay", "n02.lmay", "n03.lmay", "n04.lmay", "n05.lmay",
    "n06.lmay", "n07.lmay", "n08.lmay", "n09.lmay", "n10.lmay", "n11.lmay",
    "n12.lmay", "n13.lmay">>

ChainDoc(i) == PathJoin(ProjectPath, <<ChainNames[i + 1]>>)

\* the chain of n links; document k declares hierarchy.depth h (or none)
ChainProject(n, k, h) ==
  [d \in {ChainDoc(i) : i \in 0..n} |->
     LET i == CHOOSE j \in 0..n : ChainDoc(j) = d IN
     [kind |-> "map",
      structure |-> IF i < n THEN <<LinkItem(<<ChainNames[i + 2]>>, 1)>>
                    ELSE <<>>,
      hdepth |-> IF i = k THEN h ELSE <<>>,
      schema |-> TRUE]]

InitDeep ==
  /\ rootFile = "root.lmay"
  /\ \E n \in 1..MaxChain, k \in 0..MaxChain,
        h \in {<<>>} \cup {<<x>> : x \in 0..MaxDeclaredDepth} :
        /\ k <= n
        /\ docs = ChainProject(n, k, h)
  /\ RVIdle
  /\ HIdle
  /\ OIdle
  /\ DIdle
  /\ SIdle
  /\ WIdle
  /\ VIdle

SpecDeep == InitDeep /\ [][NextHier]_vars

\* the nested-document-link hops between the root and a node of the tree
Hops(n) == Len(n.trail)

\* C24: a hierarchy node lying more than the maximum depth (10)
\* nested-document-link hops below the root produces an
\* excessive_hierarchy_depth warning.
C24_DeepNodeIsWarned ==
  hpc = "done" =>
     \A i \in 1..Len(hTree) :
        Hops(hTree[i]) > MaxHierarchyDepth =>
           \E w \in 1..Len(hWarnings) :
              /\ hWarnings[w].type = "excessive_hierarchy_depth"
              /\ hWarnings[w].file = hTree[i].file

-----------------------------------------------------------------------------
\* SchemaValidator.validateStructureItem (part_009, lines 291-323)

MaxFileCount == 3   \* largest file_count a structure item carries

\* path.isAbsolute: the path starts at the file-system root
PathIsAbsolute(p) == p # <<>> /\ p[1] = "/"

\* the truth value JavaScript gives a number: 0 is falsy
TruthyNumber(c) == c # <<>> /\ c[1] # 0

\* the truth value JavaScript gives a string: "" is falsy
TruthyString(x) == x # None /\ x # ""

SchemaFinding(t, f, at) == [type |-> t, file |-> f, at |-> at]

\* lines 294-301
AbsolutePathWarning(name, item, filePath) ==
  IF item.path # <<>> /\ PathIsAbsolute(item.path)
  THEN <<SchemaFinding("absolute_path_in_structure", filePath,
                       <<"structure", name, "path">>)>>
  ELSE <<>>

\* lines 304-312
FileCountError(name, item, filePath) ==
  IF /\ item.type = "file"
     /\ TruthyNumber(item.file_count)
     /\ item.file_count[1] # 1
  THEN <<SchemaFinding("invalid_file_count", filePath,
                       <<"structure", name, "file_count">>)>>
  ELSE <<>>

\* lines 315-322
LanguageOnFileWarning(name, item, filePath) ==
  IF TruthyString(item.primary_language) /\ item.type = "file"
  THEN <<SchemaFinding("language_on_file", filePath,
                       <<"structure", name, "primary_language">>)>>
  ELSE <<>>

\* validateStructureItem(name, info, filePath) on the validator of RootDoc
ValidateStructureItem ==
  /\ spc = "idle"
  /\ spc' = "done"
  /\ sErrors' = sErrors \o FileCountError(info.name, info, RootDoc(rootFile))
  /\ sWarnings' = sWarnings
                     \o AbsolutePathWarning(info.name, info, RootDoc(rootFile))
                     \o LanguageOnFileWarning(info.name, info,
                                              RootDoc(rootFile))
  /\ UNCHANGED <<projVars, wVars, cliVars, rvVars, hVars, oVars, info>>

StructureNames == {"src", "main.js"}
ItemPaths == {<<>>, <<"src">>, <<"/", "srv", "src">>}
ItemTypes == {None, "file", "directory"}
ItemCounts == {<<>>} \cup {<<c>> : c \in 0..MaxFileCount}
ItemLanguages == {None, "", "javascript"}

InitItem ==
  /\ rootFile = "root.lmay"
  /\ docs = [d \in DocPaths("root.lmay") |-> DocOf("root.lmay", d, {})]
  /\ RVIdle
  /\ HIdle
  /\ OIdle
  /\ DIdle
  /\ WIdle
  /\ VIdle
  /\ info \in {StructureItem(n, p, t, c, l) :
                 n \in StructureNames, p \in ItemPaths, t \in ItemTypes,
                 c \in ItemCounts, l \in ItemLanguages}
  /\ spc = "idle"
  /\ sErrors = <<>>
  /\ sWarnings = <<>>

NextItem == ValidateStructureItem

SpecItem == InitItem /\ [][NextItem]_vars

InvalidFileCountReported ==
  \E k \in 1..Len(sErrors) : sErrors[k].type = "invalid_file_count"

\* C25: a file-kind structure entry whose file_count is present with any
\* value other than 1 produces an invalid_file_count error; a file-kind entry
\* with file_count equal to 1, or without file_count, produces none.
C25_FileCountOtherThanOneIsAnError ==
  (spc = "done" /\ info.type = "file") =>
     (InvalidFileCountReported <=>
        (info.file_count # <<>> /\ info.file_count[1] # 1))

-----------------------------------------------------------------------------
\* every document of the project parses to a mapping
EveryDocumentLoads == \A d \in DOMAIN docs : docs[d].kind = "map"

\* some document declares a nested-document link
SomeLink ==
  \E d \in DOMAIN docs : \E i \in 1..Len(docs[d].structure) :
     docs[d].structure[i].lmay_file # <<>>

\* every path and every nested document an entry names exists, the path
\* with the type the entry declares
EveryReferenceResolves ==
  \A d \in DOMAIN docs : \A i \in 1..Len(docs[d].structure) :
     LET item == docs[d].structure[i] IN
       /\ item.lmay_file # <<>> => DeclaredTarget(d, i) \in DOMAIN docs
       /\ PathCheck(<<>>, d, item) = <<>>

\* C26: for a project in which every document loads, the nested-document
\* link graph is acyclic and contains at least one link, and every
\* referenced path exists with the declared type, reference validation runs
\* cycle detection and orphan detection to completion and reports zero
\* errors.
C26_SoundLinkedProjectHasNoErrors ==
  (/\ pc = "done"
   /\ EveryDocumentLoads
   /\ ~CyclicGraph
   /\ SomeLink
   /\ EveryReferenceResolves) =>
     (Len(errors) = 0 /\ result)

-----------------------------------------------------------------------------
\* the findings about the nested-document link of entry i of document d
LinkFindings(d, i) ==
  SelectSeq(errors,
            LAMBDA f : /\ f.type = "lmay_file_not_found"
                       /\ f.file = d
                       /\ f.at = <<"structure", docs[d].structure[i].name,
                                   "lmay_file">>)

\* C27: in one project validation the references of each document are
\* validated at most once, so a broken reference inside a document that is
\* reached through several link paths or both by link and by directory
\* discovery produces one finding, not one per path.
C27_OneFindingPerBrokenReference ==
  pc = "done" =>
     \A d \in DOMAIN docs : \A i \in 1..Len(docs[d].structure) :
        Len(LinkFindings(d, i)) <= 1

-----------------------------------------------------------------------------
\* node j lies on the way from the root to node i, or is node i
OnPathTo(j, i) ==
  /\ Len(hTree[j].trail) <= Len(hTree[i].trail)
  /\ hTree[j].trail = SubSeq(hTree[i].trail, 1, Len(hTree[j].trail))

NoFileTwiceOnAPath ==
  \A i \in 1..Len(hTree) : \A j \in 1..Len(hTree) :
     (j # i /\ OnPathTo(j, i)) => hTree[j].file # hTree[i].file

\* C28: buildHierarchyTree terminates on every finite nested-document link
\* graph, cyclic ones included, and returns a finite tree in which no
\* document path occurs twice on any root-to-node path.
C28_TreeBuiltWithoutRepeats ==
  hpc = "done" =>
     /\ NoFileTwiceOnAPath
     /\ \A i \in 1..Len(hTree) : Hops(hTree[i]) < Cardinality(DOMAIN docs)

\* a tree was built on a link graph with a cycle that the root reaches
C28_CyclicGraphBuilt ==
  hpc = "done" /\ PathRevisited /\ Len(hTree) >= 2

-----------------------------------------------------------------------------
\* how many entries of a list of the analysis are about `file`
TimesListed(list, file) ==
  Len(SelectSeq(list, LAMBDA e : e.path = file.path))

\* C29: analyzeObsolescence places every input document in exactly one of
\* the three lists obsolete, outdated and valid, so the sizes of the three
\* lists always sum to the number of documents analysed.
C29_EveryDocumentInExactlyOneList ==
  opc # "idle" =>
     /\ \A i \in 1..(oIdx - 1) :
           TimesListed(analysis.obsolete, lmayFiles[i])
             + TimesListed(analysis.outdated, lmayFiles[i])
             + TimesListed(analysis.valid, lmayFiles[i]) = 1
     /\ Len(analysis.obsolete) + Len(analysis.outdated)
          + Len(analysis.valid) = oIdx - 1

\* an analysis that returned with documents in two different lists
C29_TwoListsFilled ==
  /\ opc = "done"
  /\ Len(analysis.obsolete) > 0
  /\ Len(analysis.outdated) + Len(analysis.valid) > 0

-----------------------------------------------------------------------------
\* The watch mode of the updater (part_007): watchForChanges (lines 197-272),
\* queueChange (lines 717-731) and processChangeQueue (lines 733-761).  An
\* accepted event is named by its position in `accepted`; an entry of the
\* queue remembers in `events` the events it stands for.  The lastModified
\* stamp of an entry is read by nothing and is left out.

MaxEvents == 4   \* events the watcher handlers accept

\* the files of the project for which shouldProcessFile answers true
WatchedPaths == {<<"p", "src", "a.js">>, <<"p", "src", "b.js">>}

QueueEntry(filePath, actions, events) ==
  [filePath |-> filePath, actions |-> actions, events |-> events]

\* changeQueue.get(key): the position of the entry, 0 when there is none
QueueGet(q, key) ==
  IF \E k \in 1..Len(q) : q[k].filePath = key
  THEN CHOOSE k \in 1..Len(q) : q[k].filePath = key
  ELSE 0

\* a variant that sets a fresh entry over an existing one
QueueChange_Replaces(q, action, filePath, e) ==
  LET k == QueueGet(q, filePath) IN
    IF k # 0
    THEN [q EXCEPT ![k] = QueueEntry(filePath, {action}, {e})]
    ELSE Append(q, QueueEntry(filePath, {action}, {e}))

\* queueChange(changeQueue, action, filePath) for the event e
QueueChange(q, action, filePath, e) ==
  LET k == QueueGet(q, filePath) IN
    IF k # 0
    THEN [q EXCEPT ![k].actions = @ \cup {action},
                   ![k].events = @ \cup {e}]
    ELSE Append(q, QueueEntry(filePath, {action}, {e}))

\* the body the three handlers of the watcher share (lines 227-230): the
\* change is queued and the debounced update is armed again
Handler(action, filePath) ==
  /\ Len(accepted) < MaxEvents
  /\ accepted' = Append(accepted, [action |-> action, filePath |-> filePath])
  /\ changeQueue' = QueueChange(changeQueue, action, filePath,
                                Len(accepted) + 1)
  /\ timer' = TRUE
  /\ UNCHANGED <<projVars, sVars, cliVars, rvVars, hVars, oVars, batches,
                 inFlight>>

\* watcher.on('add', ...), lines 226-231
W_Add == \E filePath \in WatchedPaths : Handler("added", filePath)

\* watcher.on('change', ...), lines 233-238
W_Change == \E filePath \in WatchedPaths : Handler("modified", filePath)

\* watcher.on('unlink', ...), lines 240-245
W_Unlink == \E filePath \in WatchedPaths : Handler("removed", filePath)

\* the debounce delay has passed without a further call: processChangeQueue
\* runs up to its first await (lines 734-742)
W_Process ==
  /\ timer
  /\ timer' = FALSE
  /\ IF Len(changeQueue) = 0
     THEN UNCHANGED <<changeQueue, batches, inFlight>>
     ELSE /\ batches' = Append(batches, changeQueue)
          /\ changeQueue' = <<>>
          /\ inFlight' = inFlight \cup {Len(batches) + 1}
  /\ UNCHANGED <<projVars, sVars, cliVars, rvVars, hVars, oVars, accepted>>

\* the rest of processChangeQueue for the batch b (lines 742-760)
W_Processed ==
  \E b \in inFlight :
     /\ inFlight' = inFlight \ {b}
     /\ UNCHANGED <<projVars, sVars, cliVars, rvVars, hVars, oVars,
                    changeQueue, timer, batches, accepted>>

InitWatch ==
  /\ rootFile = "root.lmay"
  /\ docs = [d \in DocPaths("root.lmay") |-> DocOf("root.lmay", d, {})]
  /\ RVIdle
  /\ HIdle
  /\ OIdle
  /\ DIdle
  /\ SIdle
  /\ VIdle
  /\ changeQueue = <<>>
  /\ timer = FALSE
  /\ batches = <<>>
  /\ inFlight = {}
  /\ accepted = <<>>

NextWatch == W_Add \/ W_Change \/ W_Unlink \/ W_Process \/ W_Processed

SpecWatch == InitWatch /\ [][NextWatch]_vars

\* where the event e is held: 0 is the queue, b > 0 the batch number b
Holders(e) ==
  {<<0, k>> : k \in {j \in 1..Len(changeQueue) :
                       e \in changeQueue[j].events}}
  \cup UNION { {<<b, k>> : k \in {j \in 1..Len(batches[b]) :
                                    e \in batches[b][j].events}} :
               b \in 1..Len(batches) }

\* the entries of a list have different paths, and each holds the actions
\* of the events it stands for, all of them about its path
Coalesced(list) ==
  /\ \A j \in 1..Len(list), k \in 1..Len(list) :
        list[j].filePath = list[k].filePath => j = k
  /\ \A k \in 1..Len(list) :
        /\ list[k].actions = {accepted[e].action : e \in list[k].events}
        /\ \A e \in list[k].events : accepted[e].filePath = list[k].filePath

\* C30: in the updater's watch mode every accepted file-change event ends
\* up in exactly one batch taken by processChangeQueue: events for the same
\* path queued before a batch is taken are coalesced into one entry holding
\* all their actions, and events that arrive while a batch is being
\* processed stay queued for a later batch, never lost and never processed
\* twice.
C30_EachEventInExactlyOneBatch ==
  /\ \A e \in 1..Len(accepted) : Cardinality(Holders(e)) = 1
  /\ Coalesced(changeQueue)
  /\ \A b \in 1..Len(batches) : Coalesced(batches[b])
  /\ Len(changeQueue) > 0 => timer

\* while a batch is being processed, two later events for a path of that
\* batch wait in one entry of the queue
C30_CoalescedDuringProcessing ==
  \E b \in inFlight : \E k \in 1..Len(changeQueue) :
     /\ Cardinality(changeQueue[k].events) >= 2
     /\ Cardinality(changeQueue[k].actions) >= 2
     /\ \E j \in 1..Len(batches[b]) :
           batches[b][j].filePath = changeQueue[k].filePath

====
